---- MODULE Spec2Model ----
(***************************************************************************)
(* A model of osm_building_fetcher.py: fetch_osm_buildings (payload         *)
(* retrieval, graph indexing, ring building, attribute normalisation,       *)
(* record assembly, CZML output) and its helpers.                           *)
(*                                                                          *)
(* Conventions:                                                             *)
(*   - a Python value that may be None is a tuple: <<>> is None, <<v>> is v *)
(*   - a Python str is a tuple of one-character strings                     *)
(*   - a Python float is a decimal fraction [num, den], den a power of ten, *)
(*     in lowest decimal form                                               *)
(*   - a Python dict is the tuple of its <<key, value>> items in insertion  *)
(*     order, keys distinct                                                 *)
(***************************************************************************)
EXTENDS Integers, Sequences, FiniteSets, TLC

VARIABLES
    pc,                   \* position in fetch_osm_buildings (or in a helper's harness)
    offline_payload_path, \* "none" | "missing" | "file"
    candidate_urls,       \* what each endpoint answers, in list order
    source,               \* the JSON value the file or a healthy endpoint holds
    output_czml,          \* the output_czml argument
    payload,              \* Optional[Dict]
    errors,               \* List[str], one entry per failure
    contacted,            \* the endpoints requests.get was called on, in call order
    url_i,                \* index of the next endpoint of the fetch loop
    elem_i,               \* index of the next element of the indexing loop
    nodes,                \* Dict[int, coordinate]
    buildings,            \* Dict[int, way element]
    way_i,                \* index of the next item of buildings.items()
    results,              \* List[building_info]
    czml_files,           \* List[str] (the way ids that name the files)
    fs,                   \* the file system under czml_directory
    returned,             \* Optional: the returned dictionary
    raised,               \* Optional: the exception that left the function
    arg,                  \* a helper's argument (helper harnesses only)
    out                   \* a helper's results, one per call (helper harnesses only)

vars == <<pc, offline_payload_path, candidate_urls, source, output_czml, payload,
          errors, contacted, url_i, elem_i, nodes, buildings, way_i, results,
          czml_files, fs, returned, raised, arg, out>>

-----------------------------------------------------------------------------
(* Bounds of the model *)

\* the longest endpoint list
MaxUrls == 3
\* the longest node-id list of a way, and the longest coordinate list closed
MaxRing == 4
\* the most way (or relation) elements of a payload whose order is varied
MaxWays == 3
\* node ids run from 1 to MaxNodeId
MaxNodeId == 3

-----------------------------------------------------------------------------
(* Python values *)

None == <<>>
Some(v) == <<v>>
IsNone(o) == o = <<>>
Val(o) == o[1]

\* dict.get(key) on a dict kept as its items
DictGet(d, key) ==
    IF \E i \in 1..Len(d) : d[i][1] = key
    THEN Some(d[CHOOSE i \in 1..Len(d) : d[i][1] = key][2])
    ELSE None

DictHas(d, key) == \E i \in 1..Len(d) : d[i][1] = key

\* d[key] = value: an existing key keeps its position, a new key goes last
DictSet(d, key, value) ==
    IF DictHas(d, key)
    THEN [i \in 1..Len(d) |-> IF d[i][1] = key THEN <<key, value>> ELSE d[i]]
    ELSE Append(d, <<key, value>>)

\* x or y, on optional strings: x when it is neither None nor empty
OrElse(x, y) == IF ~IsNone(x) /\ Val(x) # <<>> THEN x ELSE y

\* x or "", on an optional string
OrEmpty(x) == IF IsNone(x) THEN <<>> ELSE Val(x)

-----------------------------------------------------------------------------
(* Floats: exact decimal fractions (the rounding of binary floating point is   *)
(* left out: levels * 3.0 is the exact product)                              *)

RECURSIVE Reduce(_, _)
Reduce(num, den) ==
    IF den > 1 /\ num % 10 = 0 THEN Reduce(num \div 10, den \div 10)
    ELSE [num |-> num, den |-> den]

Float(num, den) == Reduce(num, den)

FloatTimes(f, k) == Reduce(f.num * k, f.den)

FLOOR_HEIGHT == 3
DEFAULT_EXTRUDED == 10

-----------------------------------------------------------------------------
(* _normalize_height *)

Digits == <<"0", "1", "2", "3", "4", "5", "6", "7", "8", "9">>

IsDigit(c) == \E d \in 1..10 : Digits[d] = c

DigitVal(c) == (CHOOSE d \in 1..10 : Digits[d] = c) - 1

\* the length of the longest run of digits of s that starts at position j
RECURSIVE DigitRun(_, _)
DigitRun(s, j) ==
    IF j <= Len(s) /\ IsDigit(s[j]) THEN 1 + DigitRun(s, j + 1) ELSE 0

\* the match of [-+]?[0-9]*\.?[0-9]+ that starts at position i: <<first, last>>,
\* or <<>> when there is none
MatchAt(s, i) ==
    LET j == IF i <= Len(s) /\ s[i] \in {"-", "+"} THEN i + 1 ELSE i
        a == DigitRun(s, j)
        k == j + a
        b == IF k <= Len(s) /\ s[k] = "." THEN DigitRun(s, k + 1) ELSE 0
    IN  IF b > 0 THEN <<i, k + b>>
        ELSE IF a > 0 THEN <<i, k - 1>>
        ELSE <<>>

\* re.search: the match at the leftmost position that has one
Search(s) ==
    IF \E i \in 1..Len(s) : MatchAt(s, i) # <<>>
    THEN LET i == CHOOSE p \in 1..Len(s) :
                      /\ MatchAt(s, p) # <<>>
                      /\ \A q \in 1..(p - 1) : MatchAt(s, q) = <<>>
         IN  Some(SubSeq(s, MatchAt(s, i)[1], MatchAt(s, i)[2]))
    ELSE None

\* the value of a run of digits read as a decimal integer
RECURSIVE DigitsValue(_)
DigitsValue(s) ==
    IF s = <<>> THEN 0
    ELSE 10 * DigitsValue(SubSeq(s, 1, Len(s) - 1)) + DigitVal(s[Len(s)])

RECURSIVE Pow10(_)
Pow10(n) == IF n = 0 THEN 1 ELSE 10 * Pow10(n - 1)

\* float(text), for a text the pattern matched
ParseFloat(text) ==
    LET signed == text[1] \in {"-", "+"}
        body == IF signed THEN Tail(text) ELSE text
        a == DigitRun(body, 1)
        frac == IF a < Len(body) THEN SubSeq(body, a + 2, Len(body)) ELSE <<>>
        mag == DigitsValue(SubSeq(body, 1, a)) * Pow10(Len(frac)) + DigitsValue(frac)
    IN  Float(IF text[1] = "-" THEN 0 - mag ELSE mag, Pow10(Len(frac)))

Clean(value) ==
    IF value = <<>> THEN None
    ELSE LET match == Search(value)
         IN  IF IsNone(match) THEN None ELSE Some(ParseFloat(Val(match)))

NormalizeHeight(raw_height, raw_levels) ==
    LET height == Clean(OrEmpty(raw_height))
        levels == Clean(OrEmpty(raw_levels))
    IN  IF ~IsNone(height) THEN height
        ELSE IF ~IsNone(levels) THEN Some(FloatTimes(Val(levels), FLOOR_HEIGHT))
        ELSE None

-----------------------------------------------------------------------------
(* _format_address *)

ADDRESS_FIELDS ==
    <<"addr:housenumber", "addr:houseletter", "addr:street", "addr:suburb",
      "addr:city", "addr:state", "addr:postcode", "addr:country">>

\* separator.join(parts)
RECURSIVE Join(_, _)
Join(separator, parts) ==
    IF parts = <<>> THEN <<>>
    ELSE IF Len(parts) = 1 THEN parts[1]
    ELSE parts[1] \o separator \o Join(separator, Tail(parts))

\* the parts list after the loop has visited the first n keys of _ADDRESS_FIELDS
RECURSIVE AddressParts(_, _)
AddressParts(tags, n) ==
    IF n = 0 THEN <<>>
    ELSE LET value == DictGet(tags, ADDRESS_FIELDS[n])
             before == AddressParts(tags, n - 1)
         IN  IF ~IsNone(value) /\ Val(value) # <<>>
             THEN Append(before, Val(value))
             ELSE before

\* (mutation of FormatAddress: the values are taken in the mapping's order)
FormatAddressTagOrder(tags) ==
    LET listed == SelectSeq(tags, LAMBDA item :
                      /\ \E k \in 1..Len(ADDRESS_FIELDS) : ADDRESS_FIELDS[k] = item[1]
                      /\ item[2] # <<>>)
        parts == [k \in 1..Len(listed) |-> listed[k][2]]
    IN  IF parts # <<>> THEN Some(Join(<<",", " ">>, parts)) ELSE None

FormatAddress(tags) ==
    LET parts == AddressParts(tags, Len(ADDRESS_FIELDS))
    IN  IF parts # <<>> THEN Some(Join(<<",", " ">>, parts)) ELSE None

-----------------------------------------------------------------------------
(* _ensure_closed_ring *)

\* (mutation of EnsureClosedRing: the first coordinate is appended unless the
\* list is empty)
EnsureClosedRingAlways(ns) ==
    IF ns = <<>> THEN ns ELSE Append(ns, ns[1])

EnsureClosedRing(ns) ==
    IF ns = <<>> THEN ns
    ELSE IF ns[1] # ns[Len(ns)] THEN Append(ns, ns[1])
    ELSE ns

-----------------------------------------------------------------------------
(* _build_czml_document *)

\* (mutation of Cartographic: latitude before longitude)
RECURSIVE CartographicLatFirst(_)
CartographicLatFirst(coordinates) ==
    IF coordinates = <<>> THEN <<>>
    ELSE <<coordinates[1].lat, coordinates[1].lng, 0>>
             \o CartographicLatFirst(Tail(coordinates))

\* the flat list the loop over the coordinates builds
RECURSIVE Cartographic(_)
Cartographic(coordinates) ==
    IF coordinates = <<>> THEN <<>>
    ELSE <<coordinates[1].lng, coordinates[1].lat, 0>>
             \o Cartographic(Tail(coordinates))

\* (mutation of ExtrudedHeight: "if not height" for "if height is None")
ExtrudedHeightFalsy(height) ==
    IF IsNone(height) \/ Val(height).num = 0 THEN Float(DEFAULT_EXTRUDED, 1)
    ELSE Val(height)

ExtrudedHeight(height) ==
    IF IsNone(height) THEN Float(DEFAULT_EXTRUDED, 1) ELSE Val(height)

DocumentPacket(way_id) ==
    [id |-> "document",
     name |-> <<"OSM Way ", way_id>>,
     version |-> "1.0",
     clock |-> [interval |-> "2020-01-01T00:00:00Z/2020-01-01T00:01:00Z",
                currentTime |-> "2020-01-01T00:00:00Z",
                multiplier |-> 1]]

BuildingPacket(way_id, coordinates, height) ==
    [id |-> <<"building-", way_id>>,
     name |-> <<"Building ", way_id>>,
     polygon |->
        [positions |-> [cartographicDegrees |-> Cartographic(coordinates)],
         perPositionHeight |-> FALSE,
         extrudedHeight |-> ExtrudedHeight(height),
         height |-> 0,
         material |-> [solidColor |-> [color |-> [rgba |-> <<255, 165, 0, 160>>]]],
         outline |-> TRUE,
         outlineColor |-> [rgba |-> <<0, 0, 0, 255>>]]]

BuildCzmlDocument(way_id, coordinates, height) ==
    <<DocumentPacket(way_id), BuildingPacket(way_id, coordinates, height)>>

-----------------------------------------------------------------------------
(* fetch_osm_buildings: retrieving the payload *)

inputs == <<offline_payload_path, candidate_urls, source, output_czml>>
harness == <<arg, out>>
fetched == <<payload, errors, contacted, url_i>>
indexed == <<elem_i, nodes, buildings>>
assembled == <<way_i, results, czml_files, fs>>
outcome == <<returned, raised>>

\* offline_payload_path is None or empty: nothing is loaded
NoOfflinePath ==
    /\ pc = "load"
    /\ offline_payload_path = "none"
    /\ pc' = "fetch"
    /\ UNCHANGED <<inputs, harness, fetched, indexed, assembled, outcome>>

\* the path names no file: one error, and the endpoints are tried
OfflineNotFound ==
    /\ pc = "load"
    /\ offline_payload_path = "missing"
    /\ errors' = Append(errors, [url |-> 0, reason |-> "offline payload not found"])
    /\ pc' = "fetch"
    /\ UNCHANGED <<inputs, harness, payload, contacted, url_i, indexed, assembled,
                   outcome>>

\* json.load of the file; the JSON value null leaves payload None
LoadOffline ==
    /\ pc = "load"
    /\ offline_payload_path = "file"
    /\ payload' = source
    /\ pc' = IF IsNone(source) THEN "fetch" ELSE "validate"
    /\ UNCHANGED <<inputs, harness, errors, contacted, url_i, indexed, assembled,
                   outcome>>

InFetchLoop == pc = "fetch" /\ url_i <= Len(candidate_urls)

\* requests.get or raise_for_status raises RequestException
RequestFails ==
    /\ InFetchLoop
    /\ candidate_urls[url_i] = "request_error"
    /\ contacted' = Append(contacted, url_i)
    /\ errors' = Append(errors, [url |-> url_i, reason |-> "request failed"])
    /\ url_i' = url_i + 1
    /\ UNCHANGED <<pc, inputs, harness, payload, indexed, assembled, outcome>>

\* response.json() raises ValueError
ResponseInvalid ==
    /\ InFetchLoop
    /\ candidate_urls[url_i] = "invalid_json"
    /\ contacted' = Append(contacted, url_i)
    /\ errors' = Append(errors, [url |-> url_i, reason |-> "invalid JSON response"])
    /\ payload' = None
    /\ url_i' = url_i + 1
    /\ UNCHANGED <<pc, inputs, harness, indexed, assembled, outcome>>

\* response.json() returns the JSON value, and the loop is left by break
ResponseParsed ==
    /\ InFetchLoop
    /\ candidate_urls[url_i] = "ok"
    /\ contacted' = Append(contacted, url_i)
    /\ payload' = source
    /\ pc' = "validate"
    /\ UNCHANGED <<inputs, harness, errors, url_i, indexed, assembled, outcome>>

\* the for loop runs out of endpoints
FetchExhausted ==
    /\ pc = "fetch"
    /\ url_i > Len(candidate_urls)
    /\ pc' = "validate"
    /\ UNCHANGED <<inputs, harness, fetched, indexed, assembled, outcome>>

\* "; ".join(errors) if errors else "Overpass API returned no payload"
Detail(errs) ==
    IF errs # <<>> THEN errs
    ELSE <<[url |-> 0, reason |-> "Overpass API returned no payload"]>>

\* the message of the other OverpassError (a message is kept as the list of the
\* parts "; " joins, each with the endpoint it names, 0 for none)
MissingElements ==
    <<[url |-> 0, reason |-> "Invalid Overpass API response: missing 'elements'"]>>

RaiseNoPayload ==
    /\ pc = "validate"
    /\ IsNone(payload)
    /\ raised' = Some([type |-> "OverpassError", message |-> Detail(errors)])
    /\ pc' = "raised"
    /\ UNCHANGED <<inputs, harness, fetched, indexed, assembled, returned>>

RaiseMissingElements ==
    /\ pc = "validate"
    /\ ~IsNone(payload)
    /\ ~Val(payload).has_elements
    /\ raised' = Some([type |-> "OverpassError", message |-> MissingElements])
    /\ pc' = "raised"
    /\ UNCHANGED <<inputs, harness, fetched, indexed, assembled, returned>>

\* (mutation of BeginIndex: the 'elements' check is missing)
BeginIndexUnchecked ==
    /\ pc = "validate"
    /\ ~IsNone(payload)
    /\ nodes' = <<>>
    /\ buildings' = <<>>
    /\ elem_i' = 1
    /\ pc' = "index"
    /\ UNCHANGED <<inputs, harness, fetched, assembled, outcome>>

\* nodes = {}, buildings = {}
BeginIndex ==
    /\ pc = "validate"
    /\ ~IsNone(payload)
    /\ Val(payload).has_elements
    /\ nodes' = <<>>
    /\ buildings' = <<>>
    /\ elem_i' = 1
    /\ pc' = "index"
    /\ UNCHANGED <<inputs, harness, fetched, assembled, outcome>>

-----------------------------------------------------------------------------
(* fetch_osm_buildings: indexing the elements *)

Elements == Val(payload).elements

\* element.get("tags", {})
TagsOf(element) == IF IsNone(element.tags) THEN <<>> ELSE Val(element.tags)

\* el_type == "way" and element.get("tags", {}).get("building")
IsBuildingWay(element) ==
    /\ element.type = "way"
    /\ ~IsNone(DictGet(TagsOf(element), "building"))
    /\ Val(DictGet(TagsOf(element), "building")) # <<>>

InIndexLoop == pc = "index" /\ elem_i <= Len(Elements)

IndexNode ==
    /\ InIndexLoop
    /\ Elements[elem_i].type = "node"
    /\ nodes' = DictSet(nodes, Elements[elem_i].id,
                        [lat |-> Elements[elem_i].lat, lng |-> Elements[elem_i].lon])
    /\ elem_i' = elem_i + 1
    /\ UNCHANGED <<pc, inputs, harness, fetched, buildings, assembled, outcome>>

\* (mutation of IndexBuilding: the first way of an id is kept, setdefault)
IndexBuildingKeepFirst ==
    /\ InIndexLoop
    /\ IsBuildingWay(Elements[elem_i])
    /\ buildings' = IF DictHas(buildings, Elements[elem_i].id) THEN buildings
                    ELSE DictSet(buildings, Elements[elem_i].id, Elements[elem_i])
    /\ elem_i' = elem_i + 1
    /\ UNCHANGED <<pc, inputs, harness, fetched, nodes, assembled, outcome>>

IndexBuilding ==
    /\ InIndexLoop
    /\ IsBuildingWay(Elements[elem_i])
    /\ buildings' = DictSet(buildings, Elements[elem_i].id, Elements[elem_i])
    /\ elem_i' = elem_i + 1
    /\ UNCHANGED <<pc, inputs, harness, fetched, nodes, assembled, outcome>>

IndexOther ==
    /\ InIndexLoop
    /\ Elements[elem_i].type # "node"
    /\ ~IsBuildingWay(Elements[elem_i])
    /\ elem_i' = elem_i + 1
    /\ UNCHANGED <<pc, inputs, harness, fetched, nodes, buildings, assembled, outcome>>

\* results = [], czml_files = [], and the directory when CZML is asked for
BeginWays ==
    /\ pc = "index"
    /\ elem_i > Len(Elements)
    /\ results' = <<>>
    /\ czml_files' = <<>>
    /\ fs' = IF output_czml THEN [fs EXCEPT !.dir = TRUE] ELSE fs
    /\ way_i' = 1
    /\ pc' = "ways"
    /\ UNCHANGED <<inputs, harness, fetched, indexed, outcome>>

-----------------------------------------------------------------------------
(* fetch_osm_buildings: assembling the buildings *)

\* the coordinates of the references the node index holds, in order
RECURSIVE Resolve(_, _)
Resolve(node_refs, index) ==
    IF node_refs = <<>> THEN <<>>
    ELSE LET node == DictGet(index, node_refs[1])
             rest == Resolve(Tail(node_refs), index)
         IN  IF IsNone(node) THEN rest ELSE <<Val(node)>> \o rest

\* way.get("nodes", [])
NodeRefs(way) == IF IsNone(way.nodes) THEN <<>> ELSE Val(way.nodes)

Coordinates(way, index) == EnsureClosedRing(Resolve(NodeRefs(way), index))

\* the ring is kept when it has at least this many coordinates
MIN_RING == 4

\* (mutation of Degenerate: the comparison is off by one)
DegenerateOffByOne(coordinates) == Len(coordinates) < MIN_RING - 1

Degenerate(coordinates) == Len(coordinates) < MIN_RING

HeightOf(tags) ==
    NormalizeHeight(OrElse(DictGet(tags, "height"), DictGet(tags, "building:height")),
                    DictGet(tags, "building:levels"))

BuildingInfo(way_id, way, index) ==
    [way_id |-> way_id,
     outline |-> Coordinates(way, index),
     height_m |-> HeightOf(TagsOf(way)),
     address |-> FormatAddress(TagsOf(way))]

InWayLoop == pc = "ways" /\ way_i <= Len(buildings)

SkipWay ==
    /\ InWayLoop
    /\ Degenerate(Coordinates(buildings[way_i][2], nodes))
    /\ way_i' = way_i + 1
    /\ UNCHANGED <<pc, inputs, harness, fetched, indexed, results, czml_files, fs,
                   outcome>>

RecordWay ==
    /\ InWayLoop
    /\ ~Degenerate(Coordinates(buildings[way_i][2], nodes))
    /\ LET way_id == buildings[way_i][1]
           info == BuildingInfo(way_id, buildings[way_i][2], nodes)
       IN  /\ results' = Append(results, info)
           /\ IF output_czml
              THEN /\ fs' = [fs EXCEPT !.files =
                                DictSet(@, way_id,
                                        BuildCzmlDocument(way_id, info.outline,
                                                          info.height_m))]
                   /\ czml_files' = Append(czml_files, way_id)
              ELSE UNCHANGED <<fs, czml_files>>
    /\ way_i' = way_i + 1
    /\ UNCHANGED <<pc, inputs, harness, fetched, indexed, outcome>>

\* the manifest when there are files, and the returned dictionary
Return ==
    /\ pc = "ways"
    /\ way_i > Len(buildings)
    /\ fs' = IF output_czml /\ czml_files # <<>>
             THEN [fs EXCEPT !.manifest = Some([files |-> czml_files])]
             ELSE fs
    /\ returned' = Some([count |-> Len(results),
                         buildings |-> results,
                         czml_files |-> IF output_czml THEN Some(czml_files) ELSE None])
    /\ pc' = "done"
    /\ UNCHANGED <<inputs, harness, fetched, indexed, way_i, results, czml_files,
                   raised>>

-----------------------------------------------------------------------------
(* The inputs: payloads, arguments, endpoints *)

Node(id, lat, lon) == [type |-> "node", id |-> id, lat |-> lat, lon |-> lon]
Way(id, node_refs, tags) == [type |-> "way", id |-> id, nodes |-> node_refs, tags |-> tags]
Relation(id) == [type |-> "relation", id |-> id, nodes |-> None, tags |-> None]

Document(elements) == Some([has_elements |-> TRUE, elements |-> elements])
NoElements == Some([has_elements |-> FALSE, elements |-> <<>>])
JsonNull == None

Yes == <<"y", "e", "s">>
Building == <<<<"building", Yes>>>>

SeqsUpTo(S, n) == UNION {[1..k -> S] : k \in 0..n}

\* three nodes at three places; in the last table node 3 is listed twice and
\* ends at the place of node 1, in the one before node 3 is missing
NodeTables ==
    {<<Node(1, 0, 0), Node(2, 0, 1), Node(3, 1, 1)>>,
     <<Node(1, 0, 0), Node(2, 0, 1)>>,
     <<Node(1, 0, 0), Node(2, 0, 1), Node(3, 1, 1), Node(3, 0, 0)>>}

Triangle == <<Node(1, 0, 0), Node(2, 0, 1), Node(3, 1, 1)>>

Fresh ==
    /\ payload = None
    /\ errors = <<>>
    /\ contacted = <<>>
    /\ url_i = 1
    /\ elem_i = 0
    /\ nodes = <<>>
    /\ buildings = <<>>
    /\ way_i = 0
    /\ results = <<>>
    /\ czml_files = <<>>
    /\ fs = [dir |-> FALSE, files |-> <<>>, manifest |-> None]
    /\ returned = None
    /\ raised = None
    /\ arg = None
    /\ out = <<>>

Behaviours == {"request_error", "invalid_json", "ok"}

\* every way of retrieving a payload, for a few payloads
InitFetch ==
    /\ offline_payload_path \in {"none", "missing", "file"}
    /\ candidate_urls \in SeqsUpTo(Behaviours, MaxUrls)
    /\ source \in {JsonNull, NoElements, Document(<<>>),
                   Document(<<Node(1, 0, 0), Way(7, Some(<<1, 1, 1, 1>>), Some(Building))>>)}
    /\ output_czml \in BOOLEAN

FromFile ==
    /\ offline_payload_path = "file"
    /\ candidate_urls = <<"ok", "ok", "ok">>

\* one building way with every node-id list, before or after the nodes
InitGeometry ==
    /\ FromFile
    /\ \E table \in NodeTables :
       \E refs \in {None} \cup {Some(r) : r \in SeqsUpTo(1..MaxNodeId, MaxRing)} :
       \E first \in BOOLEAN :
          source = Document(IF first THEN <<Way(7, refs, Some(Building))>> \o table
                            ELSE table \o <<Way(7, refs, Some(Building))>>)
    /\ output_czml \in BOOLEAN

\* ways 1 and 2 (and relation 1) in every order and number, around the nodes
OrderedWays ==
    {Way(id, Some(refs), tags) :
        id \in 1..2,
        refs \in {<<1, 2, 3>>, <<1, 2>>},
        tags \in {Some(Building), None}}
    \cup {Relation(1)}

InitOrder ==
    /\ FromFile
    /\ \E ways \in SeqsUpTo(OrderedWays, MaxWays) :
       \E split \in 0..Len(ways) :
          source = Document(SubSeq(ways, 1, split) \o Triangle
                                \o SubSeq(ways, split + 1, Len(ways)))
    /\ output_czml = FALSE

OptItem(key, value) == IF IsNone(value) THEN <<>> ELSE <<<<key, Val(value)>>>>

HeightTexts ==
    {None, Some(<<>>), Some(<<"a", "b", "c">>), Some(<<"9">>),
     Some(<<"1", "2", ".", "5", " ", "m">>), Some(<<"0">>), Some(<<"-", "3">>)}
BuildingHeightTexts == {None, Some(<<>>), Some(<<"1", "2">>), Some(<<"x">>)}
LevelTexts == {None, Some(<<"5">>), Some(<<"2", ".", "5">>), Some(<<"f", "e", "w">>)}
HouseNumbers == {None, Some(<<"1", "2">>)}

\* one good way with every combination of height tags, and one below ground
InitHeights ==
    /\ FromFile
    /\ \E h \in HeightTexts, bh \in BuildingHeightTexts, lv \in LevelTexts,
          hn \in HouseNumbers :
          source = Document(Triangle \o
                     <<Way(7, Some(<<1, 2, 3>>),
                           Some(Building \o OptItem("building:levels", lv)
                                    \o OptItem("addr:street", Some(<<"M", "a", "i", "n">>))
                                    \o OptItem("building:height", bh)
                                    \o OptItem("addr:housenumber", hn)
                                    \o OptItem("height", h))),
                       Way(8, Some(<<3, 2, 1>>),
                           Some(Building \o <<<<"height", <<"-", "3">>>>>>))>>)
    /\ output_czml \in BOOLEAN

Init ==
    /\ pc = "load"
    /\ Fresh
    /\ \/ InitFetch
       \/ InitGeometry
       \/ InitOrder
       \/ InitHeights

Next ==
    \/ NoOfflinePath
    \/ OfflineNotFound
    \/ LoadOffline
    \/ RequestFails
    \/ ResponseInvalid
    \/ ResponseParsed
    \/ FetchExhausted
    \/ RaiseNoPayload
    \/ RaiseMissingElements
    \/ BeginIndex
    \/ IndexNode
    \/ IndexBuilding
    \/ IndexOther
    \/ BeginWays
    \/ SkipWay
    \/ RecordWay
    \/ Return

Spec == Init /\ [][Next]_vars

-----------------------------------------------------------------------------
(* The helpers on their own: _ensure_closed_ring called twice on one list,   *)
(* _format_address called on one tag mapping                                 *)

pipeline == <<inputs, fetched, indexed, assembled, outcome>>

Parked ==
    /\ offline_payload_path = "none"
    /\ candidate_urls = <<>>
    /\ source = JsonNull
    /\ output_czml = FALSE
    /\ payload = None
    /\ errors = <<>>
    /\ contacted = <<>>
    /\ url_i = 1
    /\ elem_i = 0
    /\ nodes = <<>>
    /\ buildings = <<>>
    /\ way_i = 0
    /\ results = <<>>
    /\ czml_files = <<>>
    /\ fs = [dir |-> FALSE, files |-> <<>>, manifest |-> None]
    /\ returned = None
    /\ raised = None

RingPoints == {[lat |-> 0, lng |-> 0], [lat |-> 0, lng |-> 1], [lat |-> 1, lng |-> 1]}

InitRing ==
    /\ pc = "ring"
    /\ Parked
    /\ arg \in SeqsUpTo(RingPoints, MaxRing)
    /\ out = <<>>

\* the list is closed in place and returned
CloseRing ==
    /\ pc = "ring"
    /\ out = <<>>
    /\ out' = <<EnsureClosedRing(arg)>>
    /\ UNCHANGED <<pc, arg, pipeline>>

\* the returned list is closed once more
CloseRingAgain ==
    /\ pc = "ring"
    /\ Len(out) = 1
    /\ out' = Append(out, EnsureClosedRing(out[1]))
    /\ pc' = "ring_done"
    /\ UNCHANGED <<arg, pipeline>>

NextRing == CloseRing \/ CloseRingAgain

SpecRing == InitRing /\ [][NextRing]_vars

ADDRESS_VALUES ==
    <<<<"1", "2">>, <<"b">>, <<"M", "a", "i", "n", " ", "S", "t">>, <<"S", "o", "h", "o">>,
      <<"E", "l", "y">>, <<"C", "A">>, <<"9", "4", "1", "1", "1">>, <<"U", "S">>>>

\* the items of a mapping that holds, for the keys in the given order, no item
\* (0), an empty value (1) or the key's value (2)
RECURSIVE ItemsOf(_, _)
ItemsOf(choice, order) ==
    IF order = <<>> THEN <<>>
    ELSE LET k == order[1]
             rest == ItemsOf(choice, Tail(order))
         IN  IF choice[k] = 0 THEN rest
             ELSE <<<<ADDRESS_FIELDS[k], IF choice[k] = 1 THEN <<>> ELSE ADDRESS_VALUES[k]>>>>
                      \o rest

FieldOrders == {<<1, 2, 3, 4, 5, 6, 7, 8>>, <<8, 7, 6, 5, 4, 3, 2, 1>>}

InitAddress ==
    /\ pc = "address"
    /\ Parked
    /\ \E choice \in [1..Len(ADDRESS_FIELDS) -> 0..2] :
       \E order \in FieldOrders :
          arg = Building \o ItemsOf(choice, order)
    /\ out = <<>>

CallFormatAddress ==
    /\ pc = "address"
    /\ out' = <<FormatAddress(arg)>>
    /\ pc' = "address_done"
    /\ UNCHANGED <<arg, pipeline>>

NextAddress == CallFormatAddress

SpecAddress == InitAddress /\ [][NextAddress]_vars

-----------------------------------------------------------------------------
(* What the properties speak of, read off the payload and the results        *)

Done == pc = "done"
Records == Val(returned).buildings
HasElements == ~IsNone(payload) /\ Val(payload).has_elements

\* the place of the last node element with this id, if any
NodeKnown(id) == \E k \in 1..Len(Elements) : Elements[k].type = "node" /\ Elements[k].id = id
LastNode(id) ==
    LET k == CHOOSE p \in 1..Len(Elements) :
                 /\ Elements[p].type = "node" /\ Elements[p].id = id
                 /\ \A q \in (p + 1)..Len(Elements) :
                       ~(Elements[q].type = "node" /\ Elements[q].id = id)
    IN  [lat |-> Elements[k].lat, lng |-> Elements[k].lon]

\* the coordinates of a way's references that name a node of the payload
ResolvedOf(way) ==
    LET refs == NodeRefs(way)
        known == SelectSeq([k \in 1..Len(refs) |-> <<refs[k]>>], LAMBDA r : NodeKnown(r[1]))
    IN  [k \in 1..Len(known) |-> LastNode(known[k][1])]

\* the length of the way's ring once closed
RingLength(way) ==
    LET r == ResolvedOf(way)
    IN  IF r = <<>> THEN 0 ELSE IF r[1] = r[Len(r)] THEN Len(r) ELSE Len(r) + 1

\* the closed ring of a way
RingOf(way) ==
    LET r == ResolvedOf(way)
    IN  IF r = <<>> \/ r[1] = r[Len(r)] THEN r ELSE r \o <<r[1]>>

BuildingAt(k) == Elements[k].type = "way" /\ IsBuildingWay(Elements[k])

\* the ids of the building-tagged ways of the payload
BuildingIds == {Elements[k].id : k \in {p \in 1..Len(Elements) : BuildingAt(p)}}

FirstBuildingAt(id) ==
    CHOOSE p \in 1..Len(Elements) :
        /\ BuildingAt(p) /\ Elements[p].id = id
        /\ \A q \in 1..(p - 1) : ~(BuildingAt(q) /\ Elements[q].id = id)

LastBuildingAt(id) ==
    CHOOSE p \in 1..Len(Elements) :
        /\ BuildingAt(p) /\ Elements[p].id = id
        /\ \A q \in (p + 1)..Len(Elements) : ~(BuildingAt(q) /\ Elements[q].id = id)

\* the first place of a way element with this id, building or not
FirstWayAt(id) ==
    CHOOSE p \in 1..Len(Elements) :
        /\ Elements[p].type = "way" /\ Elements[p].id = id
        /\ \A q \in 1..(p - 1) : ~(Elements[q].type = "way" /\ Elements[q].id = id)

RecordIds == {Records[i].way_id : i \in 1..Len(Records)}

-----------------------------------------------------------------------------
(* C1 *)

\* C1: every record of the returned 'buildings' list has an outline whose first
\* coordinate equals its last, of length at least 4, with at least 3 distinct
\* vertices.
C1_OutlinesArePolygons ==
    Done =>
        \A i \in 1..Len(Records) :
            LET outline == Records[i].outline
            IN  /\ Len(outline) >= 4
                /\ outline[1] = outline[Len(outline)]
                /\ Cardinality({outline[k] : k \in 1..Len(outline)}) >= 3

-----------------------------------------------------------------------------
(* C2 *)

\* the height the resolution order gives: the first of 'height', 'building:height'
\* and 'building:levels' times 3.0 that has a parseable number
ChainHeight(tags) ==
    LET h == Clean(OrEmpty(DictGet(tags, "height")))
        bh == Clean(OrEmpty(DictGet(tags, "building:height")))
        lv == Clean(OrEmpty(DictGet(tags, "building:levels")))
    IN  IF ~IsNone(h) THEN h
        ELSE IF ~IsNone(bh) THEN bh
        ELSE IF ~IsNone(lv) THEN Some([num |-> 3 * Val(lv).num, den |-> Val(lv).den])
        ELSE None

SameNumber(x, y) ==
    IF IsNone(x) \/ IsNone(y) THEN IsNone(x) /\ IsNone(y)
    ELSE Val(x).num * Val(y).den = Val(y).num * Val(x).den

\* C2: the height_m of every record is the first parseable value of the 'height'
\* tag, the 'building:height' tag and 'building:levels' times 3.0, in that order;
\* a tag with no parseable number counts as absent; no parseable tag, no height.
C2_HeightChain ==
    Done =>
        \A i \in 1..Len(Records) :
            LET way == Elements[LastBuildingAt(Records[i].way_id)]
            IN  SameNumber(Records[i].height_m, ChainHeight(TagsOf(way)))

-----------------------------------------------------------------------------
(* C3 *)

-----------------------------------------------------------------------------
(* C4 *)

FileOf(way_id) == Val(DictGet(fs.files, way_id))

\* C4: with CZML output, the geometry packet written for a record has
\* extrudedHeight 10.0 when the record's height_m is absent (and the record keeps
\* it absent: it is the height resolved from the way's tags), and exactly height_m
\* when it is present, zero and negative values included.
C4_ExtrusionDefault ==
    (Done /\ output_czml) =>
        \A i \in 1..Len(Records) :
            LET r == Records[i]
                way == Elements[LastBuildingAt(r.way_id)]
            IN  /\ DictHas(fs.files, r.way_id)
                /\ r.height_m = HeightOf(TagsOf(way))
                /\ FileOf(r.way_id)[2].polygon.extrudedHeight =
                       IF IsNone(r.height_m) THEN [num |-> 10, den |-> 1]
                       ELSE Val(r.height_m)

\* a run that wrote a packet for a record without height and for one with a
\* height that is not positive
C4_Witness ==
    /\ Done
    /\ output_czml
    /\ \E i \in 1..Len(Records) : IsNone(Records[i].height_m)
    /\ \E i \in 1..Len(Records) :
          ~IsNone(Records[i].height_m) /\ Val(Records[i].height_m).num <= 0

-----------------------------------------------------------------------------
(* C5 *)

\* C5: closing a ring twice gives what closing it once gives; an empty list stays
\* empty, a list whose first and last coordinates are equal is unchanged, and any
\* other list gets exactly one more coordinate, equal to its first.
C5_RingClosingIdempotent ==
    /\ Len(out) >= 1 =>
          /\ arg = <<>> => out[1] = <<>>
          /\ (arg # <<>> /\ arg[1] = arg[Len(arg)]) => out[1] = arg
          /\ (arg # <<>> /\ arg[1] # arg[Len(arg)]) =>
                /\ Len(out[1]) = Len(arg) + 1
                /\ SubSeq(out[1], 1, Len(arg)) = arg
                /\ out[1][Len(out[1])] = arg[1]
    /\ Len(out) = 2 => out[2] = out[1]

\* an open list of coordinates closed twice
C5_Witness ==
    /\ Len(out) = 2
    /\ Len(arg) >= 3
    /\ arg[1] # arg[Len(arg)]

-----------------------------------------------------------------------------
(* C6 *)

\* C6: the geometry packet of a record with an outline of n vertices has a
\* cartographicDegrees list of 3n entries, the i-th vertex's longitude, latitude
\* and 0.0 at 3i, 3i+1, 3i+2 (counted from 0), perPositionHeight false and base
\* height 0.0.
C6_FlattenedPositions ==
    (Done /\ output_czml) =>
        \A i \in 1..Len(Records) :
            LET outline == Records[i].outline
                polygon == FileOf(Records[i].way_id)[2].polygon
                degrees == polygon.positions.cartographicDegrees
            IN  /\ Len(degrees) = 3 * Len(outline)
                /\ \A v \in 0..(Len(outline) - 1) :
                      /\ degrees[3 * v + 1] = outline[v + 1].lng
                      /\ degrees[3 * v + 2] = outline[v + 1].lat
                      /\ degrees[3 * v + 3] = 0
                /\ polygon.perPositionHeight = FALSE
                /\ polygon.height = 0

\* a packet written for an outline with a vertex whose longitude is not its latitude
C6_Witness ==
    /\ Done
    /\ output_czml
    /\ \E i \in 1..Len(Records) :
          /\ DictHas(fs.files, Records[i].way_id)
          /\ \E v \in 1..Len(Records[i].outline) :
                Records[i].outline[v].lng # Records[i].outline[v].lat

-----------------------------------------------------------------------------
(* C7 *)

AddressValue(k) == OrEmpty(DictGet(arg, ADDRESS_FIELDS[k]))
AddressPresent == {k \in 1..Len(ADDRESS_FIELDS) : AddressValue(k) # <<>>}

\* the number of characters the result holds before the value of field k
RECURSIVE AddressOffset(_)
AddressOffset(k) ==
    IF k = 1 THEN 0
    ELSE AddressOffset(k - 1)
             + (IF (k - 1) \in AddressPresent THEN Len(AddressValue(k - 1)) + 2 ELSE 0)

\* C7: the result holds the values of the listed tags that are present and not
\* empty, in the order of the list whatever the order of the mapping, with ", "
\* between them and nothing else; it is absent when there is no such value.
C7_AddressInFieldOrder ==
    pc = "address_done" =>
        IF AddressPresent = {} THEN IsNone(out[1])
        ELSE /\ ~IsNone(out[1])
             /\ LET text == Val(out[1])
                IN  /\ Len(text) = AddressOffset(Len(ADDRESS_FIELDS) + 1) - 2
                    /\ \A k \in AddressPresent :
                          /\ SubSeq(text, AddressOffset(k) + 1,
                                    AddressOffset(k) + Len(AddressValue(k)))
                                 = AddressValue(k)
                          /\ AddressOffset(k) > 0 =>
                                /\ text[AddressOffset(k) - 1] = ","
                                /\ text[AddressOffset(k)] = " "

\* a mapping in another order than the list, with an empty value and two others
C7_Witness ==
    /\ pc = "address_done"
    /\ Cardinality(AddressPresent) >= 2
    /\ arg[2][1] = "addr:country"
    /\ \E i \in 1..Len(arg) : arg[i][2] = <<>>
    /\ ~IsNone(out[1])

-----------------------------------------------------------------------------
(* C8 *)

Unavailable == pc = "raised" /\ Val(raised).message # MissingElements

EndpointReasons == SelectSeq(Val(raised).message, LAMBDA part : part.url # 0)

\* C8: the endpoints are contacted in list order, each at most once, none after
\* the first that answers with parseable JSON; the error for unavailability is
\* raised only if every endpoint failed, and then names one reason per endpoint,
\* in list order.
C8_EndpointFallback ==
    /\ contacted = [k \in 1..Len(contacted) |-> k]
    /\ \A k \in 1..(Len(contacted) - 1) : candidate_urls[k] # "ok"
    /\ Unavailable =>
          /\ \A k \in 1..Len(candidate_urls) : candidate_urls[k] # "ok"
          /\ Len(EndpointReasons) = Len(candidate_urls)
          /\ \A k \in 1..Len(EndpointReasons) : EndpointReasons[k].url = k

-----------------------------------------------------------------------------
(* C9 *)

\* C9: a payload without 'elements' ends the call with the error before any
\* element is processed: nothing is returned, no record is built, and neither the
\* directory nor a scene file nor the manifest is created.
C9_MissingElementsIsFatal ==
    (~IsNone(payload) /\ ~Val(payload).has_elements) =>
        /\ pc \in {"validate", "raised"}
        /\ pc = "raised" => ~IsNone(raised) /\ Val(raised).message = MissingElements
        /\ IsNone(returned)
        /\ elem_i = 0
        /\ results = <<>>
        /\ fs = [dir |-> FALSE, files |-> <<>>, manifest |-> None]

\* the error raised for a payload without 'elements' when CZML output was asked for
C9_Witness ==
    /\ pc = "raised"
    /\ output_czml
    /\ ~IsNone(payload)
    /\ ~Val(payload).has_elements

-----------------------------------------------------------------------------
(* C10 *)

\* no id twice
OnePerId ==
    \A i, j \in 1..Len(Records) : i < j => Records[i].way_id # Records[j].way_id

\* C10 as stated: one record per way id that carries a 'building' tag and has a
\* ring of at least 4 coordinates (nodes listed after the way included), none
\* for anything else, in the order in which the way ids are first met in the
\* element list, and count is the length of the list.
C10_OneRecordPerWayId ==
    Done =>
        /\ RecordIds = {id \in BuildingIds :
                           \E p \in 1..Len(Elements) :
                               /\ BuildingAt(p)
                               /\ Elements[p].id = id
                               /\ RingLength(Elements[p]) >= 4}
        /\ OnePerId
        /\ \A i, j \in 1..Len(Records) :
              i < j => FirstWayAt(Records[i].way_id) < FirstWayAt(Records[j].way_id)
        /\ Val(returned).count = Len(Records)

\* C10 (amended): one record per way id whose last building-tagged way element
\* has a ring of at least 4 coordinates (nodes listed after the way included),
\* with that element's ring as outline, none for anything else, in the order in
\* which the ids are first met on a building-tagged way, and count is the length
\* of the list.
C10_OneRecordPerIndexedWay ==
    Done =>
        /\ RecordIds = {id \in BuildingIds : RingLength(Elements[LastBuildingAt(id)]) >= 4}
        /\ \A i \in 1..Len(Records) :
              Records[i].outline = RingOf(Elements[LastBuildingAt(Records[i].way_id)])
        /\ OnePerId
        /\ \A i, j \in 1..Len(Records) :
              i < j => FirstBuildingAt(Records[i].way_id)
                           < FirstBuildingAt(Records[j].way_id)
        /\ Val(returned).count = Len(Records)

\* two records, of ways listed before the nodes, one of an id listed twice
C10_Witness ==
    /\ Done
    /\ Len(Records) = 2
    /\ Elements[1].type = "way"
    /\ \E id \in RecordIds : FirstBuildingAt(id) # LastBuildingAt(id)

====
